---- MODULE Spec2Model ----
(***************************************************************************)
(* Model of degenbot's Uniswap liquidity pool managers                     *)
(* (src/uniswap/manager/uniswap_managers.py):                              *)
(*   UniswapV2LiquidityPoolManager.__init__, get_pool  and                 *)
(*   UniswapV3LiquidityPoolManager.__init__, get_pool                      *)
(* called by several threads on the per-factory shared state.             *)
(*                                                                         *)
(* Specifications:                                                         *)
(*   Spec           get_pool calls of every argument shape, overlapping,   *)
(*                  on the managers of one factory                         *)
(*   SpecSeq        the same calls, one after the other                    *)
(*   SpecInit       overlapping __init__ calls on classes with no entry    *)
(*   SpecLife       __init__ and get_pool calls, one after the other       *)
(*   SpecMulti      valid get_pool calls, overlapping, on the managers of  *)
(*                  two factories                                          *)
(*   SpecPoolsFair  as SpecMulti for pools, with fair scheduling           *)
(*                                                                         *)
(* Python values:                                                          *)
(*   None            <<>>          an optional argument that is absent     *)
(*   x (supplied)    <<x>>         an optional argument that is present    *)
(*   address string  <<n, c>>      n the 160-bit value, c = TRUE when the  *)
(*                                 string is in EIP-55 checksum case       *)
(*   dict            a function whose DOMAIN is the set of keys present    *)
(*                                                                         *)
(* Environment: the chain holds the pools of the registry's own factory;   *)
(* an address handed to get_pool is the address of one of them, in either  *)
(* case form; a derived address may have no pool behind it.  Every         *)
(* collaborator call that the code guards with try/except may fail at any  *)
(* time.                                                                   *)
(***************************************************************************)
EXTENDS Integers, Sequences, FiniteSets, TLC

\* ------------------------------------------------------------------ bounds
NumCallers == 2
MaxCalls == 2
MaxInits == 2

Callers == 1..NumCallers

\* ------------------------------------------------------- python primitives
None == <<>>
Some(x) == <<x>>

NoHelper == [id |-> 0]

DictGet(d, k) == IF k \in DOMAIN d THEN d[k] ELSE NoHelper

DictSet(d, k, v) == [x \in (DOMAIN d) \cup {k} |-> IF x = k THEN v ELSE d[x]]

DictValues(d) == {d[k] : k \in DOMAIN d}

\* ------------------------------------------------------------- environment
Variants == {"V2", "V3"}
Factories == {1, 2}

\* the dict objects that can come to be an entry of _state: the n-th dict
\* created for factory f in class v is <<v, f, n>>
Registries == Variants \X Factories \X (1..MaxInits)

Fees == {5}

ZERO_ADDRESS == <<0, TRUE>>

\* as toChecksumAddress, leaving the case form as it is
toChecksumAddressIdentity(address) == address

\* Web3.toChecksumAddress: any case form of an address to its checksum form
toChecksumAddress(address) == <<address[1], TRUE>>

\* An Erc20Token helper; helpers are ordered by their address
Erc20Token(token_address) == [address |-> token_address]

min(helpers) ==
    IF helpers[2].address < helpers[1].address THEN helpers[2] ELSE helpers[1]

max(helpers) ==
    IF helpers[2].address > helpers[1].address THEN helpers[2] ELSE helpers[1]

\* as SortedHelpers, in the caller's order
SortedHelpersUnsorted(helpers) == helpers

\* lines 125-128: the pair of helpers of a lookup by tokens, sorted by address
SortedHelpers(helpers) == <<min(helpers), max(helpers)>>

\* the CREATE2 address of the pool a factory deploys for a sorted pair (and fee)
Create2(factory, t0, t1, fee) ==
    <<(((factory * 10) + t0) * 10 + t1) * 100 + fee, TRUE>>

\* the pools deployed on chain: the V2 pair and the V3 pools of each factory
ChainPools ==
    {[variant |-> "V2", factory |-> f, address |-> Create2(f, 1, 2, 0),
      token0 |-> 1, token1 |-> 2, fee |-> 0] : f \in Factories}
    \cup
    {[variant |-> "V3", factory |-> x[1], address |-> Create2(x[1], 1, 2, x[2]),
      token0 |-> 1, token1 |-> 2, fee |-> x[2]] : x \in Factories \X Fees}

PoolAt(variant, address) ==
    {p \in ChainPools : p.variant = variant /\ p.address = address}

\* factory_contract.getPair(tokenA, tokenB): symmetric, zero when no pair exists
getPair(factory, tokenA, tokenB) ==
    LET found == {p \in ChainPools :
                    /\ p.variant = "V2" /\ p.factory = factory
                    /\ {p.token0, p.token1} = {tokenA, tokenB}
                    /\ tokenA # tokenB}
    IN IF found = {} THEN ZERO_ADDRESS ELSE (CHOOSE p \in found : TRUE).address

\* the factory whose address generate_v3_pool_address uses when none is passed
DefaultV3Factory == 1

\* degenbot.uniswap.functions.generate_v3_pool_address(token_addresses, fee)
generate_v3_pool_address(token_addresses, fee) ==
    LET lo == IF token_addresses[1] < token_addresses[2]
              THEN token_addresses[1] ELSE token_addresses[2]
        hi == IF token_addresses[1] < token_addresses[2]
              THEN token_addresses[2] ELSE token_addresses[1]
    IN Create2(DefaultV3Factory, lo, hi, fee)

\* LiquidityPool(address=...): the helper built from the pool's on-chain data
LiquidityPool(address, id) ==
    LET p == CHOOSE q \in PoolAt("V2", address) : TRUE
    IN [id |-> id, address |-> address,
        token0 |-> Erc20Token(p.token0), token1 |-> Erc20Token(p.token1)]

\* V3LiquidityPool(address=...): as above, with the pool's fee tier
V3LiquidityPool(address, id) ==
    LET p == CHOOSE q \in PoolAt("V3", address) : TRUE
    IN [id |-> id, address |-> address,
        token0 |-> Erc20Token(p.token0), token1 |-> Erc20Token(p.token1),
        fee |-> p.fee]

\* ------------------------------------------------------------------ inputs
AddressInputs(self) ==
    {<<p.address[1], c>> :
        p \in {q \in ChainPools : q.variant = self[1] /\ q.factory = self[2]},
        c \in BOOLEAN}

\* the two orders of the pair, a pair of one token twice, a tuple of one token
TokenInputs == {<<1, 2>>, <<2, 1>>, <<1, 1>>, <<1>>}

PoolAddressArgs(self) == {None} \cup {Some(a) : a \in AddressInputs(self)}

TokenAddressesArgs == {None} \cup {Some(p) : p \in TokenInputs}

PoolFeeArgs == {None} \cup {Some(f) : f \in Fees}

V2Args(self) ==
    [pool_address : PoolAddressArgs(self), token_addresses : TokenAddressesArgs,
     pool_fee : {None}]

V3Args(self) ==
    [pool_address : PoolAddressArgs(self), token_addresses : TokenAddressesArgs,
     pool_fee : PoolFeeArgs]

\* ------------------------------------------------------------------- state
VARIABLES
    pools_by_address,         \* per registry: dict address -> pool helper
    pools_by_tokens,          \* per V2 registry: dict (token0, token1) -> helper
    pools_by_tokens_and_fee,  \* per V3 registry: dict (token0, token1, fee) -> helper
    lock,                     \* per manager class: the caller holding it, 0 if free
    pc,                       \* per caller: where it is in get_pool
    call,                     \* per caller: the manager and arguments of its call
    seq,                      \* per caller: the number of its call, in order of entry
    pool_address,             \* per caller: local pool_address
    tokens_key,               \* per caller: local tokens_key
    dict_key,                 \* per caller: local dict_key
    pool_helper,              \* per caller: local pool_helper
    result,                   \* per caller: how its call ended
    io,                       \* per caller: the collaborator calls its call made
    ncalls,                   \* get_pool calls entered so far
    _state,                   \* per manager class: dict factory_address -> dict object
    attrs,                    \* per dict object created: the attributes set in it
    managers,                 \* the manager objects constructed: their __dict__,
                              \* and the get_pool calls entered before
    ninits                    \* __init__ calls entered so far

vars == <<pools_by_address, pools_by_tokens, pools_by_tokens_and_fee, lock, pc,
          call, seq, pool_address, tokens_key, dict_key, pool_helper, result,
          io, ncalls, _state, attrs, managers, ninits>>

shared == <<pools_by_address, pools_by_tokens, pools_by_tokens_and_fee, lock>>

created == <<_state, attrs, managers, ninits>>

NoCall == [self |-> <<"V2", 0, 0>>, pool_address |-> None,
           token_addresses |-> None, pool_fee |-> None]

\* the attributes __init__ sets in the manager's __dict__
AttrsOf(variant) ==
    IF variant = "V2"
    THEN {"factory_contract", "pools_by_address", "pools_by_tokens"}
    ELSE {"factory_contract", "pools_by_address", "pools_by_tokens_and_fee", "lens"}

\* the state after one manager of each class has been constructed for each of
\* the given factories, and before any call of get_pool
Constructed(factories) ==
    /\ _state = [v \in Variants |-> [f \in factories |-> <<v, f, 1>>]]
    /\ attrs = [d \in Variants \X factories \X {1} |-> AttrsOf(d[1])]
    /\ managers = {[dict |-> d, created |-> 0] : d \in Variants \X factories \X {1}}
    /\ ninits = 0
    /\ pools_by_address = [r \in Registries |-> <<>>]
    /\ pools_by_tokens = [r \in {x \in Registries : x[1] = "V2"} |-> <<>>]
    /\ pools_by_tokens_and_fee = [r \in {x \in Registries : x[1] = "V3"} |-> <<>>]
    /\ lock = [v \in Variants |-> 0]
    /\ pc = [t \in Callers |-> "idle"]
    /\ call = [t \in Callers |-> NoCall]
    /\ seq = [t \in Callers |-> 0]
    /\ pool_address = [t \in Callers |-> None]
    /\ tokens_key = [t \in Callers |-> None]
    /\ dict_key = [t \in Callers |-> None]
    /\ pool_helper = [t \in Callers |-> NoHelper]
    /\ result = [t \in Callers |-> "none"]
    /\ io = [t \in Callers |-> <<>>]
    /\ ncalls = 0

\* the managers of the first factory are constructed
Init == Constructed({1})

\* ------------------------------------------------------- caller bookkeeping
\* the __dict__ of the manager objects of a class
RegistriesOf(variant) == {m.dict : m \in {x \in managers : x.dict[1] = variant}}

Idle(t) == pc[t] \in {"idle", "done"}

\* a caller enters get_pool of manager `self` with the given arguments
\* (callers are interchangeable: they are numbered in the order of their first call)
Enter(t, self, a) ==
    /\ Idle(t)
    /\ \A u \in Callers : u < t => seq[u] > 0
    /\ ncalls < MaxCalls
    /\ ncalls' = ncalls + 1
    /\ seq' = [seq EXCEPT ![t] = ncalls + 1]
    /\ UNCHANGED created
    /\ call' = [call EXCEPT ![t] = [self |-> self,
                                    pool_address |-> a.pool_address,
                                    token_addresses |-> a.token_addresses,
                                    pool_fee |-> a.pool_fee]]

\* the caller's locals after a step
Locals(t, newpc, address, tkey, dkey, helper, res) ==
    /\ pc' = [pc EXCEPT ![t] = newpc]
    /\ pool_address' = [pool_address EXCEPT ![t] = address]
    /\ tokens_key' = [tokens_key EXCEPT ![t] = tkey]
    /\ dict_key' = [dict_key EXCEPT ![t] = dkey]
    /\ pool_helper' = [pool_helper EXCEPT ![t] = helper]
    /\ result' = [result EXCEPT ![t] = res]

\* the call ends: `return helper` or `raise res`
Done(t, helper, res) == Locals(t, "done", None, None, None, helper, res)

Goto(t, newpc) ==
    Locals(t, newpc, pool_address[t], tokens_key[t], dict_key[t],
           pool_helper[t], result[t])

Logged(t, entries) == io' = [io EXCEPT ![t] = io[t] \o entries]

IoCall(fn, args) == [fn |-> fn, args |-> args]

\* _token_manager.get_erc20token for each token address in turn: `n` of them
\* succeed; the list comprehension stops at the first Erc20TokenError
ResolveLog(token_addresses, n) ==
    [i \in 1..(IF n < 2 THEN n + 1 ELSE 2) |->
        IoCall("get_erc20token", <<token_addresses[i]>>)]

\* dictionary key pair is sorted by address
TokensKey(token_addresses) ==
    LET erc20token_helpers ==
            SortedHelpers(<<Erc20Token(token_addresses[1]),
                            Erc20Token(token_addresses[2])>>)
    IN <<erc20token_helpers[1].address, erc20token_helpers[2].address>>

\* ------------------------------------- UniswapV2LiquidityPoolManager.get_pool
\* entry: the branch on the arguments, up to the first read of the caches
V2GetPool(t) ==
    \E self \in RegistriesOf("V2") : \E a \in V2Args(self) :
        /\ Enter(t, self, a)
        /\ io' = [io EXCEPT ![t] = <<>>]
        /\ UNCHANGED shared
        /\ IF a.pool_address # None
           THEN LET address == toChecksumAddress(a.pool_address[1])
                    cached == DictGet(pools_by_address[self], address)
                IN IF cached # NoHelper
                   THEN Done(t, cached, "return")
                   ELSE Locals(t, "v2_build_a", Some(address), None, None,
                               NoHelper, "none")
           ELSE IF a.token_addresses # None
           THEN IF Len(a.token_addresses[1]) # 2
                THEN Done(t, NoHelper, "ValueError")
                ELSE Locals(t, "v2_resolve", None, None, None, NoHelper, "none")
           ELSE Done(t, NoHelper, "return_None")

\* as V2BuildByAddress, with the failed construction recorded under the address
V2BuildByAddressRecordingFailure(t) ==
    /\ pc[t] = "v2_build_a"
    /\ Logged(t, <<IoCall("LiquidityPool", <<pool_address[t][1]>>)>>)
    /\ \E ok \in BOOLEAN :
        /\ ok => PoolAt("V2", pool_address[t][1]) # {}
        /\ IF ok
           THEN /\ Locals(t, "v2_lock_a", pool_address[t], None, None,
                          LiquidityPool(pool_address[t][1], seq[t]), "none")
                /\ UNCHANGED pools_by_address
           ELSE /\ Done(t, NoHelper, "ManagerError")
                /\ pools_by_address' =
                     [pools_by_address EXCEPT ![call[t].self] =
                         DictSet(@, pool_address[t][1], [id |-> seq[t]])]
    /\ UNCHANGED <<pools_by_tokens, pools_by_tokens_and_fee, lock, call, seq,
                   ncalls, created>>

\* lines 82-88: LiquidityPool(address=pool_address), outside the lock
V2BuildByAddress(t) ==
    /\ pc[t] = "v2_build_a"
    /\ Logged(t, <<IoCall("LiquidityPool", <<pool_address[t][1]>>)>>)
    /\ \E ok \in BOOLEAN :
        /\ ok => PoolAt("V2", pool_address[t][1]) # {}
        /\ IF ok
           THEN Locals(t, "v2_lock_a", pool_address[t], None, None,
                       LiquidityPool(pool_address[t][1], seq[t]), "none")
           ELSE Done(t, NoHelper, "ManagerError")
    /\ UNCHANGED <<shared, call, seq, ncalls, created>>

\* lines 90-91: take the lock, write pools_by_address
V2InsertByAddress(t) ==
    /\ pc[t] = "v2_lock_a"
    /\ lock["V2"] = 0
    /\ lock' = [lock EXCEPT !["V2"] = t]
    /\ pools_by_address' =
         [pools_by_address EXCEPT ![call[t].self] =
             DictSet(@, pool_address[t][1], pool_helper[t])]
    /\ Goto(t, "v2_insert_a")
    /\ UNCHANGED <<pools_by_tokens, pools_by_tokens_and_fee, call, seq, io,
                   ncalls, created>>

\* lines 92-98: write pools_by_tokens, return, release the lock
V2InsertByAddressTokens(t) ==
    /\ pc[t] = "v2_insert_a"
    /\ pools_by_tokens' =
         [pools_by_tokens EXCEPT ![call[t].self] =
             DictSet(@, <<pool_helper[t].token0.address,
                          pool_helper[t].token1.address>>, pool_helper[t])]
    /\ lock' = [lock EXCEPT !["V2"] = 0]
    /\ Done(t, pool_helper[t], "return")
    /\ UNCHANGED <<pools_by_address, pools_by_tokens_and_fee, call, seq, io,
                   ncalls, created>>

\* lines 107-132: resolve the tokens, sort them, read pools_by_tokens
V2ResolveTokens(t) ==
    /\ pc[t] = "v2_resolve"
    /\ \E n \in 0..2 :
        /\ Logged(t, ResolveLog(call[t].token_addresses[1], n))
        /\ IF n < 2
           THEN Done(t, NoHelper, "ManagerError")
           ELSE LET key == TokensKey(call[t].token_addresses[1])
                    cached == DictGet(pools_by_tokens[call[t].self], key)
                IN IF cached # NoHelper
                   THEN Done(t, cached, "return")
                   ELSE Locals(t, "v2_getPair", None, Some(key), None,
                               NoHelper, "none")
    /\ UNCHANGED <<shared, call, seq, ncalls, created>>

\* as V2GetPair, with the `with self.lock` block opened before the construction
V2GetPairThenLock(t) ==
    /\ pc[t] = "v2_getPair"
    /\ lock["V2"] = 0
    /\ lock' = [lock EXCEPT !["V2"] = t]
    /\ Logged(t, <<IoCall("getPair", tokens_key[t][1])>>)
    /\ LET address == getPair(call[t].self[2], tokens_key[t][1][1],
                              tokens_key[t][1][2])
       IN IF address = ZERO_ADDRESS
          THEN Done(t, NoHelper, "ManagerError")
          ELSE Locals(t, "v2_build_t", Some(address), tokens_key[t], None,
                      NoHelper, "none")
    /\ UNCHANGED <<pools_by_address, pools_by_tokens, pools_by_tokens_and_fee,
                   call, seq, ncalls, created>>

\* as V2GetPair, without the comparison with ZERO_ADDRESS
V2GetPairUnchecked(t) ==
    /\ pc[t] = "v2_getPair"
    /\ Logged(t, <<IoCall("getPair", tokens_key[t][1])>>)
    /\ Locals(t, "v2_build_t",
              Some(getPair(call[t].self[2], tokens_key[t][1][1],
                           tokens_key[t][1][2])),
              tokens_key[t], None, NoHelper, "none")
    /\ UNCHANGED <<shared, call, seq, ncalls, created>>

\* lines 134-137: factory_contract.getPair(*tokens_key)
V2GetPair(t) ==
    /\ pc[t] = "v2_getPair"
    /\ Logged(t, <<IoCall("getPair", tokens_key[t][1])>>)
    /\ LET address == getPair(call[t].self[2], tokens_key[t][1][1],
                              tokens_key[t][1][2])
       IN IF address = ZERO_ADDRESS
          THEN Done(t, NoHelper, "ManagerError")
          ELSE Locals(t, "v2_build_t", Some(address), tokens_key[t], None,
                      NoHelper, "none")
    /\ UNCHANGED <<shared, call, seq, ncalls, created>>

\* lines 139-146: LiquidityPool(address=pool_address, tokens=...), outside the lock
V2BuildByTokens(t) ==
    /\ pc[t] = "v2_build_t"
    /\ Logged(t, <<IoCall("LiquidityPool", <<pool_address[t][1]>>)>>)
    /\ \E ok \in BOOLEAN :
        /\ ok => PoolAt("V2", pool_address[t][1]) # {}
        /\ IF ok
           THEN Locals(t, "v2_lock_t", pool_address[t], tokens_key[t], None,
                       LiquidityPool(pool_address[t][1], seq[t]), "none")
           ELSE Done(t, NoHelper, "ManagerError")
    /\ UNCHANGED <<shared, call, seq, ncalls, created>>

\* lines 148-149: take the lock, write pools_by_address
V2InsertByTokens(t) ==
    /\ pc[t] = "v2_lock_t"
    /\ lock["V2"] = 0
    /\ lock' = [lock EXCEPT !["V2"] = t]
    /\ pools_by_address' =
         [pools_by_address EXCEPT ![call[t].self] =
             DictSet(@, pool_address[t][1], pool_helper[t])]
    /\ Goto(t, "v2_insert_t")
    /\ UNCHANGED <<pools_by_tokens, pools_by_tokens_and_fee, call, seq, io,
                   ncalls, created>>

\* as V2InsertByTokensKey, keyed by token_addresses in the caller's order
V2InsertByTokensKeyAsGiven(t) ==
    /\ pc[t] = "v2_insert_t"
    /\ pools_by_tokens' =
         [pools_by_tokens EXCEPT ![call[t].self] =
             DictSet(@, call[t].token_addresses[1], pool_helper[t])]
    /\ lock' = [lock EXCEPT !["V2"] = 0]
    /\ Done(t, pool_helper[t], "return")
    /\ UNCHANGED <<pools_by_address, pools_by_tokens_and_fee, call, seq, io,
                   ncalls, created>>

\* as V2InsertByTokensKey, returning with the lock still held
V2InsertByTokensKeyHolding(t) ==
    /\ pc[t] = "v2_insert_t"
    /\ pools_by_tokens' =
         [pools_by_tokens EXCEPT ![call[t].self] =
             DictSet(@, tokens_key[t][1], pool_helper[t])]
    /\ Done(t, pool_helper[t], "return")
    /\ UNCHANGED <<pools_by_address, pools_by_tokens_and_fee, lock, call, seq, io,
                   ncalls, created>>

\* lines 150-151: write pools_by_tokens, return, release the lock
V2InsertByTokensKey(t) ==
    /\ pc[t] = "v2_insert_t"
    /\ pools_by_tokens' =
         [pools_by_tokens EXCEPT ![call[t].self] =
             DictSet(@, tokens_key[t][1], pool_helper[t])]
    /\ lock' = [lock EXCEPT !["V2"] = 0]
    /\ Done(t, pool_helper[t], "return")
    /\ UNCHANGED <<pools_by_address, pools_by_tokens_and_fee, call, seq, io,
                   ncalls, created>>

\* ------------------------------------- UniswapV3LiquidityPoolManager.get_pool
\* lines 201-203: the condition under which the first ValueError is raised
V3InsufficientArguments(a) ==
    ~((a.pool_address = None) # (a.token_addresses = None /\ a.pool_fee = None))

\* lines 228-234: the key of the insert on the lookup by address
V3AddressDictKey(helper, pool_fee) ==
    <<helper.token0.address, helper.token1.address, pool_fee>>

\* entry: the checks of the arguments, up to the first read of the caches
V3GetPool(t) ==
    \E self \in RegistriesOf("V3") : \E a \in V3Args(self) :
        /\ Enter(t, self, a)
        /\ io' = [io EXCEPT ![t] = <<>>]
        /\ UNCHANGED shared
        /\ IF V3InsufficientArguments(a)
           THEN Done(t, NoHelper, "ValueError")
           ELSE IF a.pool_address # None
           THEN IF a.token_addresses # None \/ a.pool_fee # None
                THEN Done(t, NoHelper, "ValueError")
                ELSE LET address == toChecksumAddress(a.pool_address[1])
                         cached == DictGet(pools_by_address[self], address)
                     IN IF cached # NoHelper
                        THEN Done(t, cached, "return")
                        ELSE Locals(t, "v3_build_a", Some(address), None, None,
                                    NoHelper, "none")
           ELSE IF a.token_addresses # None /\ a.pool_fee # None
           THEN IF Len(a.token_addresses[1]) # 2
                THEN Done(t, NoHelper, "ValueError")
                ELSE Locals(t, "v3_resolve", None, None, None, NoHelper, "none")
           ELSE Done(t, NoHelper, "return_None")

\* lines 219-226: V3LiquidityPool(address=pool_address), outside the lock
V3BuildByAddress(t) ==
    /\ pc[t] = "v3_build_a"
    /\ Logged(t, <<IoCall("V3LiquidityPool", <<pool_address[t][1]>>)>>)
    /\ \E ok \in BOOLEAN :
        /\ ok => PoolAt("V3", pool_address[t][1]) # {}
        /\ IF ok
           THEN Locals(t, "v3_lock_a", pool_address[t], None, None,
                       V3LiquidityPool(pool_address[t][1], seq[t]), "none")
           ELSE Done(t, NoHelper, "ManagerError")
    /\ UNCHANGED <<shared, call, seq, ncalls, created>>

\* lines 228-235: take the lock, build dict_key, write pools_by_address
V3InsertByAddress(t) ==
    /\ pc[t] = "v3_lock_a"
    /\ lock["V3"] = 0
    /\ lock' = [lock EXCEPT !["V3"] = t]
    /\ pools_by_address' =
         [pools_by_address EXCEPT ![call[t].self] =
             DictSet(@, pool_address[t][1], pool_helper[t])]
    /\ Locals(t, "v3_insert_a", pool_address[t], None,
              Some(V3AddressDictKey(pool_helper[t], call[t].pool_fee)),
              pool_helper[t], result[t])
    /\ UNCHANGED <<pools_by_tokens, pools_by_tokens_and_fee, call, seq, io,
                   ncalls, created>>

\* lines 236-237: write pools_by_tokens_and_fee, return, release the lock
V3InsertByAddressKey(t) ==
    /\ pc[t] = "v3_insert_a"
    /\ pools_by_tokens_and_fee' =
         [pools_by_tokens_and_fee EXCEPT ![call[t].self] =
             DictSet(@, dict_key[t][1], pool_helper[t])]
    /\ lock' = [lock EXCEPT !["V3"] = 0]
    /\ Done(t, pool_helper[t], "return")
    /\ UNCHANGED <<pools_by_address, pools_by_tokens, call, seq, io, ncalls, created>>

\* lines 246-270: resolve the tokens, sort them, read pools_by_tokens_and_fee
V3ResolveTokens(t) ==
    /\ pc[t] = "v3_resolve"
    /\ \E n \in 0..2 :
        /\ Logged(t, ResolveLog(call[t].token_addresses[1], n))
        /\ IF n < 2
           THEN Done(t, NoHelper, "ManagerError")
           ELSE LET key == TokensKey(call[t].token_addresses[1])
                    dkey == <<key[1], key[2], call[t].pool_fee>>
                    cached == DictGet(pools_by_tokens_and_fee[call[t].self], dkey)
                IN IF cached # NoHelper
                   THEN Done(t, cached, "return")
                   ELSE Locals(t, "v3_derive", None, Some(key), Some(dkey),
                               NoHelper, "none")
    /\ UNCHANGED <<shared, call, seq, ncalls, created>>

\* as V3DeriveAddress, without the read of pools_by_address (lines 276-277)
V3DeriveAddressNoRead(t) ==
    /\ pc[t] = "v3_derive"
    /\ Locals(t, "v3_build_t",
              Some(generate_v3_pool_address(tokens_key[t][1], call[t].pool_fee[1])),
              tokens_key[t], dict_key[t], NoHelper, "none")
    /\ UNCHANGED <<shared, call, seq, io, ncalls, created>>

\* lines 272-277: derive the pool address, read pools_by_address
V3DeriveAddress(t) ==
    /\ pc[t] = "v3_derive"
    /\ LET address == generate_v3_pool_address(tokens_key[t][1],
                                               call[t].pool_fee[1])
           cached == DictGet(pools_by_address[call[t].self], address)
       IN IF cached # NoHelper
          THEN Done(t, cached, "return")
          ELSE Locals(t, "v3_build_t", Some(address), tokens_key[t],
                      dict_key[t], NoHelper, "none")
    /\ UNCHANGED <<shared, call, seq, io, ncalls, created>>

\* lines 279-287: V3LiquidityPool(address=pool_address, tokens=...), outside the lock
V3BuildByTokens(t) ==
    /\ pc[t] = "v3_build_t"
    /\ Logged(t, <<IoCall("V3LiquidityPool", <<pool_address[t][1]>>)>>)
    /\ \E ok \in BOOLEAN :
        /\ ok => PoolAt("V3", pool_address[t][1]) # {}
        /\ IF ok
           THEN Locals(t, "v3_lock_t", pool_address[t], tokens_key[t],
                       dict_key[t],
                       V3LiquidityPool(pool_address[t][1], seq[t]), "none")
           ELSE Done(t, NoHelper, "ManagerError")
    /\ UNCHANGED <<shared, call, seq, ncalls, created>>

\* as V3InsertByTokens, writing the pools_by_address of the class's first dict
V3InsertByTokensOneDict(t) ==
    /\ pc[t] = "v3_lock_t"
    /\ lock["V3"] = 0
    /\ lock' = [lock EXCEPT !["V3"] = t]
    /\ pools_by_address' =
         [pools_by_address EXCEPT ![<<"V3", 1, 1>>] =
             DictSet(@, pool_address[t][1], pool_helper[t])]
    /\ Goto(t, "v3_insert_t")
    /\ UNCHANGED <<pools_by_tokens, pools_by_tokens_and_fee, call, seq, io,
                   ncalls, created>>

\* lines 289-290: take the lock, write pools_by_address
V3InsertByTokens(t) ==
    /\ pc[t] = "v3_lock_t"
    /\ lock["V3"] = 0
    /\ lock' = [lock EXCEPT !["V3"] = t]
    /\ pools_by_address' =
         [pools_by_address EXCEPT ![call[t].self] =
             DictSet(@, pool_address[t][1], pool_helper[t])]
    /\ Goto(t, "v3_insert_t")
    /\ UNCHANGED <<pools_by_tokens, pools_by_tokens_and_fee, call, seq, io,
                   ncalls, created>>

\* lines 291-292: write pools_by_tokens_and_fee, return, release the lock
V3InsertByTokensKey(t) ==
    /\ pc[t] = "v3_insert_t"
    /\ pools_by_tokens_and_fee' =
         [pools_by_tokens_and_fee EXCEPT ![call[t].self] =
             DictSet(@, dict_key[t][1], pool_helper[t])]
    /\ lock' = [lock EXCEPT !["V3"] = 0]
    /\ Done(t, pool_helper[t], "return")
    /\ UNCHANGED <<pools_by_address, pools_by_tokens, call, seq, io, ncalls, created>>

\* ------------------------------------------------------------------ __init__
\* self._state.get(factory_address): None when the class has no entry
StateGet(variant, factory_address) ==
    IF factory_address \in DOMAIN _state[variant]
    THEN Some(_state[variant][factory_address])
    ELSE None

\* bool(d) of a dict object: an empty dict is false
Truthy(entry) == entry # None /\ attrs[entry[1]] # {}

\* a caller constructs a manager object of the class for factory_address;
\* lines 42 and 170: `if self._state.get(factory_address)`
ManagerInit(t, variant, factory_address) ==
    /\ Idle(t)
    /\ ninits < MaxInits
    /\ ninits' = ninits + 1
    /\ call' = [call EXCEPT ![t] = [self |-> <<variant, factory_address, 0>>,
                                    pool_address |-> None,
                                    token_addresses |-> None,
                                    pool_fee |-> None]]
    /\ io' = [io EXCEPT ![t] = <<>>]
    /\ IF Truthy(StateGet(variant, factory_address))
       THEN Locals(t, "init_bind", None, None, None, NoHelper, "none")
       ELSE Locals(t, "init_create", None, None, None, NoHelper, "none")
    /\ UNCHANGED <<shared, seq, ncalls, _state, attrs, managers>>

V2Init(t) == \E factory_address \in Factories : ManagerInit(t, "V2", factory_address)

V3Init(t) == \E factory_address \in Factories : ManagerInit(t, "V3", factory_address)

\* the dict objects created so far for the factory in the class
DictsOf(variant, factory_address) ==
    {d \in DOMAIN attrs : d[1] = variant /\ d[2] = factory_address}

\* lines 45 and 173: self._state[factory_address] = {}
InitCreate(t) ==
    /\ pc[t] = "init_create"
    /\ LET variant == call[t].self[1]
           factory_address == call[t].self[2]
           d == <<variant, factory_address,
                  Cardinality(DictsOf(variant, factory_address)) + 1>>
       IN /\ _state' = [_state EXCEPT ![variant] = DictSet(@, factory_address, d)]
          /\ attrs' = DictSet(attrs, d, {})
    /\ Goto(t, "init_bind")
    /\ UNCHANGED <<shared, call, seq, io, ncalls, managers, ninits>>

\* lines 43, 46 and 171, 174: self.__dict__ = self._state[factory_address]
InitBind(t) ==
    /\ pc[t] = "init_bind"
    /\ call' = [call EXCEPT ![t].self = _state[call[t].self[1]][call[t].self[2]]]
    /\ Goto(t, "init_contract")
    /\ UNCHANGED <<shared, seq, io, ncalls, created>>

HasAttr(t, name) == name \in attrs[call[t].self]

SetAttr(t, name) == attrs' = [attrs EXCEPT ![call[t].self] = @ \cup {name}]

\* __init__ returns: the manager object is constructed, the caller is idle
InitDone(t) ==
    /\ managers' = managers \cup {[dict |-> call[t].self, created |-> ncalls]}
    /\ call' = [call EXCEPT ![t] = NoCall]
    /\ io' = [io EXCEPT ![t] = <<>>]
    /\ Locals(t, "idle", None, None, None, NoHelper, "none")

\* lines 53-57 and 176-180: self.factory_contract = Contract.from_abi(...)
InitContract(t) ==
    /\ pc[t] = "init_contract"
    /\ Logged(t, <<IoCall("Contract.from_abi", <<call[t].self[2]>>)>>)
    /\ SetAttr(t, "factory_contract")
    /\ Goto(t, "init_has_address")
    /\ UNCHANGED <<shared, call, seq, ncalls, _state, managers, ninits>>

\* as InitHasPoolsByAddress, without the hasattr check
InitHasPoolsByAddressUnchecked(t) ==
    /\ pc[t] = "init_has_address"
    /\ Goto(t, "init_set_address")
    /\ UNCHANGED <<shared, call, seq, io, ncalls, created>>

\* lines 60 and 183: if not hasattr(self, "pools_by_address")
InitHasPoolsByAddress(t) ==
    /\ pc[t] = "init_has_address"
    /\ IF HasAttr(t, "pools_by_address")
       THEN IF call[t].self[1] = "V2"
            THEN Goto(t, "init_has_tokens")
            ELSE Goto(t, "init_has_tokens_and_fee")
       ELSE Goto(t, "init_set_address")
    /\ UNCHANGED <<shared, call, seq, io, ncalls, created>>

\* lines 61 and 184: self.pools_by_address = {}
InitSetPoolsByAddress(t) ==
    /\ pc[t] = "init_set_address"
    /\ SetAttr(t, "pools_by_address")
    /\ pools_by_address' = [pools_by_address EXCEPT ![call[t].self] = <<>>]
    /\ IF call[t].self[1] = "V2"
       THEN Goto(t, "init_has_tokens")
       ELSE Goto(t, "init_has_tokens_and_fee")
    /\ UNCHANGED <<pools_by_tokens, pools_by_tokens_and_fee, lock, call, seq, io,
                   ncalls, _state, managers, ninits>>

\* line 62: if not hasattr(self, "pools_by_tokens"); the last statement when it has
V2InitHasPoolsByTokens(t) ==
    /\ pc[t] = "init_has_tokens"
    /\ IF HasAttr(t, "pools_by_tokens")
       THEN InitDone(t)
       ELSE Goto(t, "init_set_tokens") /\ UNCHANGED <<call, io, managers>>
    /\ UNCHANGED <<shared, seq, ncalls, _state, attrs, ninits>>

\* line 63: self.pools_by_tokens = {}
V2InitSetPoolsByTokens(t) ==
    /\ pc[t] = "init_set_tokens"
    /\ SetAttr(t, "pools_by_tokens")
    /\ pools_by_tokens' = [pools_by_tokens EXCEPT ![call[t].self] = <<>>]
    /\ InitDone(t)
    /\ UNCHANGED <<pools_by_address, pools_by_tokens_and_fee, lock, seq, ncalls,
                   _state, ninits>>

\* line 185: if not hasattr(self, "pools_by_tokens_and_fee")
V3InitHasPoolsByTokensAndFee(t) ==
    /\ pc[t] = "init_has_tokens_and_fee"
    /\ IF HasAttr(t, "pools_by_tokens_and_fee")
       THEN Goto(t, "init_has_lens")
       ELSE Goto(t, "init_set_tokens_and_fee")
    /\ UNCHANGED <<shared, call, seq, io, ncalls, created>>

\* line 186: self.pools_by_tokens_and_fee = {}
V3InitSetPoolsByTokensAndFee(t) ==
    /\ pc[t] = "init_set_tokens_and_fee"
    /\ SetAttr(t, "pools_by_tokens_and_fee")
    /\ pools_by_tokens_and_fee' =
         [pools_by_tokens_and_fee EXCEPT ![call[t].self] = <<>>]
    /\ Goto(t, "init_has_lens")
    /\ UNCHANGED <<pools_by_address, pools_by_tokens, lock, call, seq, io,
                   ncalls, _state, managers, ninits>>

\* line 187: if not hasattr(self, "lens"); the last statement when it has
V3InitHasLens(t) ==
    /\ pc[t] = "init_has_lens"
    /\ IF HasAttr(t, "lens")
       THEN InitDone(t)
       ELSE Goto(t, "init_set_lens") /\ UNCHANGED <<call, io, managers>>
    /\ UNCHANGED <<shared, seq, ncalls, _state, attrs, ninits>>

\* line 188: self.lens = TickLens()
V3InitSetLens(t) ==
    /\ pc[t] = "init_set_lens"
    /\ SetAttr(t, "lens")
    /\ InitDone(t)
    /\ UNCHANGED <<shared, seq, ncalls, _state, ninits>>

\* ----------------------------------------------------------- specifications
Step(t) ==
    \/ V2BuildByAddress(t) \/ V2InsertByAddress(t) \/ V2InsertByAddressTokens(t)
    \/ V2ResolveTokens(t) \/ V2GetPair(t) \/ V2BuildByTokens(t)
    \/ V2InsertByTokens(t) \/ V2InsertByTokensKey(t)
    \/ V3BuildByAddress(t) \/ V3InsertByAddress(t) \/ V3InsertByAddressKey(t)
    \/ V3ResolveTokens(t) \/ V3DeriveAddress(t) \/ V3BuildByTokens(t)
    \/ V3InsertByTokens(t) \/ V3InsertByTokensKey(t)

\* callers enter get_pool at any time: calls overlap
Next == \E t \in Callers : V2GetPool(t) \/ V3GetPool(t) \/ Step(t)

Spec == Init /\ [][Next]_vars

\* a caller enters get_pool only when no other call is in progress
NoCallInProgress == \A t \in Callers : Idle(t)

NextSeq ==
    \E t \in Callers :
        \/ NoCallInProgress /\ V2GetPool(t)
        \/ NoCallInProgress /\ V3GetPool(t)
        \/ Step(t)

SpecSeq == Init /\ [][NextSeq]_vars

InitStep(t) ==
    \/ InitCreate(t) \/ InitBind(t) \/ InitContract(t)
    \/ InitHasPoolsByAddress(t) \/ InitSetPoolsByAddress(t)
    \/ V2InitHasPoolsByTokens(t) \/ V2InitSetPoolsByTokens(t)
    \/ V3InitHasPoolsByTokensAndFee(t) \/ V3InitSetPoolsByTokensAndFee(t)
    \/ V3InitHasLens(t) \/ V3InitSetLens(t)

\* no manager has been constructed
InitNone == Constructed({})

\* first use: callers construct managers at any time, on classes with empty _state
NextInit == \E t \in Callers : V2Init(t) \/ V3Init(t) \/ InitStep(t)

SpecInit == InitNone /\ [][NextInit]_vars

\* get_pool(pool_address=X), or get_pool(token_addresses=(a, b)[, pool_fee=f])
ValidCall(t) ==
    \/ /\ call[t].pool_address # None
       /\ call[t].token_addresses = None
       /\ call[t].pool_fee = None
    \/ /\ call[t].pool_address = None
       /\ call[t].token_addresses # None
       /\ Len(call[t].token_addresses[1]) = 2
       /\ (call[t].self[1] = "V3") = (call[t].pool_fee # None)

\* a valid call by a checksum address, by the pair in sorted order, or by
\* one token twice (a pair no factory has a pool for)
PlainCall(t) ==
    /\ ValidCall(t)
    /\ call[t].pool_address # None => call[t].pool_address[1][2]
    /\ call[t].token_addresses # None =>
          call[t].token_addresses[1][1] <= call[t].token_addresses[1][2]

\* the managers of every factory are constructed
InitMulti == Constructed(Factories)

\* plain calls of get_pool, at any time, on the managers of several factories
NextMulti ==
    \E t \in Callers :
        \/ V2GetPool(t) /\ PlainCall(t)'
        \/ V3GetPool(t) /\ PlainCall(t)'
        \/ Step(t)

SpecMulti == InitMulti /\ [][NextMulti]_vars

\* a valid call for a pool: by address, or by two different tokens
PoolCall(t) ==
    /\ ValidCall(t)
    /\ call[t].token_addresses # None =>
          call[t].token_addresses[1][1] # call[t].token_addresses[1][2]

\* plain calls for pools, at any time, on the managers of several factories
NextPools ==
    \E t \in Callers :
        \/ V2GetPool(t) /\ (PlainCall(t) /\ PoolCall(t))'
        \/ V3GetPool(t) /\ (PlainCall(t) /\ PoolCall(t))'
        \/ Step(t)

\* every thread that can take a step of its call takes it in the end: the
\* interpreter switches between the runnable threads, each collaborator call
\* returns or raises, and a thread blocked on the lock is runnable again when
\* the lock is released
SpecPoolsFair ==
    InitMulti /\ [][NextPools]_vars /\ \A t \in Callers : WF_vars(Step(t))

\* the life of the process, one call after the other: managers of the two
\* classes are constructed for one factory, and pools are looked up through
\* the managers constructed
NextLife ==
    \E t \in Callers :
        \/ NoCallInProgress /\ \E variant \in Variants : ManagerInit(t, variant, 1)
        \/ NoCallInProgress /\ V2GetPool(t) /\ PoolCall(t)'
        \/ NoCallInProgress /\ V3GetPool(t) /\ PoolCall(t)'
        \/ InitStep(t)
        \/ Step(t)

SpecLife == InitNone /\ [][NextLife]_vars

\* ------------------------------------------------------- reading the state
Entered(t) == pc[t] # "idle"

Finished(t) == pc[t] = "done"

Returned(t) == pc[t] = "done" /\ result[t] = "return"

IoCalls(t, fns) == {i \in DOMAIN io[t] : io[t][i].fn \in fns}

Constructors == {"LiquidityPool", "V3LiquidityPool"}

\* the caller's own constructor call succeeded: it holds a helper it built
BuiltOwn(t) == pool_helper[t] # NoHelper /\ pool_helper[t].id = seq[t]

\* get_pool(pool_address=X) and nothing else
AddressCall(t) ==
    /\ Entered(t)
    /\ call[t].pool_address # None
    /\ call[t].token_addresses = None
    /\ call[t].pool_fee = None

\* get_pool(token_addresses=(a, b)) in the V2 manager,
\* get_pool(token_addresses=(a, b), pool_fee=f) in the V3 manager
TokensCall(t) ==
    /\ Entered(t)
    /\ call[t].pool_address = None
    /\ call[t].token_addresses # None
    /\ Len(call[t].token_addresses[1]) = 2
    /\ (call[t].self[1] = "V3") = (call[t].pool_fee # None)

\* the call ended in the ManagerError of the token resolution
ResolutionFailed(t) ==
    /\ Finished(t)
    /\ result[t] = "ManagerError"
    /\ IoCalls(t, Constructors \cup {"getPair"}) = {}

Composite(r) ==
    IF r[1] = "V2" THEN pools_by_tokens[r] ELSE pools_by_tokens_and_fee[r]

\* the composite key of a helper: its own sorted tokens, and its own fee in V3
CanonicalKey(r, h) ==
    IF r[1] = "V2"
    THEN <<h.token0.address, h.token1.address>>
    ELSE <<h.token0.address, h.token1.address, Some(h.fee)>>

InsertInProgress ==
    \E t \in Callers :
        pc[t] \in {"v2_insert_a", "v2_insert_t", "v3_insert_a", "v3_insert_t"}

\* ------------------------------------------------------------------ claims

\* C1: callers of one registry that look up the same missing key at the same
\* time cause exactly one pool construction for it: no two callers each hold a
\* helper that their own constructor call built for the same pool address.
C1_ExactlyOneConstruction ==
    \A t, u \in Callers :
        (/\ t # u
         /\ call[t].self = call[u].self
         /\ BuiltOwn(t) /\ BuiltOwn(u))
        => pool_helper[t].address # pool_helper[u].address

\* C2: callers of one registry that got a helper for the same pool got the
\* same helper instance, and it is the instance stored in pools_by_address.
C2_RacingCallersShareHandle ==
    \A t, u \in Callers :
        (/\ t # u
         /\ call[t].self = call[u].self
         /\ Returned(t) /\ Returned(u)
         /\ pool_helper[t].address = pool_helper[u].address)
        => /\ pool_helper[t] = pool_helper[u]
           /\ DictGet(pools_by_address[call[t].self], pool_helper[t].address)
                = pool_helper[t]

\* C3: once get_pool(pool_address=X) has returned a helper, every later call
\* get_pool(pool_address=X) on that registry, X in any case form, ends at once
\* returning the identical helper, with no constructor call.
C3_IdentityStableByAddress ==
    \A t, u \in Callers :
        (/\ AddressCall(t) /\ AddressCall(u)
         /\ call[t].self = call[u].self
         /\ call[t].pool_address[1][1] = call[u].pool_address[1][1]
         /\ Returned(t)
         /\ seq[t] < seq[u])
        => /\ Returned(u)
           /\ pool_helper[u] = pool_helper[t]
           /\ IoCalls(u, Constructors) = {}

\* a later lookup by address, in the other case form, returned the cached helper
C3_Witness ==
    \E t, u \in Callers :
        /\ AddressCall(t) /\ AddressCall(u)
        /\ call[t].self = call[u].self
        /\ call[t].pool_address[1][1] = call[u].pool_address[1][1]
        /\ call[t].pool_address # call[u].pool_address
        /\ Returned(t) /\ BuiltOwn(t)
        /\ seq[t] < seq[u]
        /\ Returned(u)

\* C4: whenever no insert is in progress, in every registry the helpers in
\* pools_by_address are the helpers in the composite index, and each helper is
\* stored in the composite index under its own canonical key.
C4_IndexSync ==
    ~InsertInProgress =>
        \A r \in Registries :
            /\ DictValues(pools_by_address[r]) = DictValues(Composite(r))
            /\ \A k \in DOMAIN Composite(r) : k = CanonicalKey(r, Composite(r)[k])

\* C5: in the V3 manager the key of the composite insert of a lookup by
\* address carries the fee tier of the helper that was built.
C5_FeeReadFromHandle ==
    \A t \in Callers :
        pc[t] = "v3_insert_a" =>
            dict_key[t] = Some(<<pool_helper[t].token0.address,
                                 pool_helper[t].token1.address,
                                 Some(pool_helper[t].fee)>>)

\* C6: in the V3 manager, after get_pool(pool_address=X) has returned a helper,
\* a later get_pool(token_addresses=pair, pool_fee=fee) for the tokens and fee
\* of the pool at X, in either order of the pair, whose derived address is X,
\* never reaches the constructor and, its tokens resolved, returns that helper.
C6_PairAndFeeAfterAddress ==
    \A t, u \in Callers :
        (/\ AddressCall(t) /\ TokensCall(u)
         /\ call[t].self[1] = "V3"
         /\ call[t].self = call[u].self
         /\ Returned(t)
         /\ seq[t] < seq[u]
         /\ \E p \in PoolAt("V3", <<call[t].pool_address[1][1], TRUE>>) :
                /\ {p.token0, p.token1} =
                     {call[u].token_addresses[1][1], call[u].token_addresses[1][2]}
                /\ p.fee = call[u].pool_fee[1]
                /\ generate_v3_pool_address(<<p.token0, p.token1>>, p.fee)
                     = p.address)
        => /\ pc[u] \in {"v3_resolve", "v3_derive", "done"}
           /\ IoCalls(u, Constructors) = {}
           /\ (Finished(u) /\ ~ResolutionFailed(u))
                => (result[u] = "return" /\ pool_helper[u] = pool_helper[t])

\* a lookup by the reversed pair and the fee returned the helper that an
\* earlier lookup by address had built
C6_Witness ==
    \E t, u \in Callers :
        /\ AddressCall(t) /\ TokensCall(u)
        /\ call[t].self[1] = "V3"
        /\ call[t].self = call[u].self
        /\ Returned(t) /\ BuiltOwn(t)
        /\ seq[t] < seq[u]
        /\ call[u].token_addresses[1][1] > call[u].token_addresses[1][2]
        /\ Returned(u)
        /\ pool_helper[u] = pool_helper[t]

\* the same two tokens, in any order
SamePair(p, q) == {p[1], p[2]} = {q[1], q[2]}

\* C7: the key of a lookup by tokens is the pair sorted by address, whatever
\* the order of the arguments; and once a lookup by tokens (and fee) has
\* returned a helper, a later lookup of the same registry by the same two
\* tokens in any order (and the same fee) returns, its tokens resolved, the
\* identical helper.
C7_PairOrderIndependent ==
    /\ \A t \in Callers :
        (TokensCall(t) /\ tokens_key[t] # None) =>
            /\ SamePair(tokens_key[t][1], call[t].token_addresses[1])
            /\ tokens_key[t][1][1] <= tokens_key[t][1][2]
            /\ call[t].self[1] = "V3" =>
                 dict_key[t] = Some(<<tokens_key[t][1][1], tokens_key[t][1][2],
                                      call[t].pool_fee>>)
    /\ \A t, u \in Callers :
        (/\ TokensCall(t) /\ TokensCall(u)
         /\ call[t].self = call[u].self
         /\ SamePair(call[t].token_addresses[1], call[u].token_addresses[1])
         /\ call[t].pool_fee = call[u].pool_fee
         /\ Returned(t)
         /\ seq[t] < seq[u]
         /\ Finished(u) /\ ~ResolutionFailed(u))
        => (result[u] = "return" /\ pool_helper[u] = pool_helper[t])

\* a lookup by (b, a) built a helper and a later lookup by (a, b) returned it
C7_Witness ==
    \E t, u \in Callers :
        /\ TokensCall(t) /\ TokensCall(u)
        /\ call[t].self = call[u].self
        /\ call[t].token_addresses[1][1] > call[t].token_addresses[1][2]
        /\ call[u].token_addresses[1][1] < call[u].token_addresses[1][2]
        /\ SamePair(call[t].token_addresses[1], call[u].token_addresses[1])
        /\ call[t].pool_fee = call[u].pool_fee
        /\ Returned(t) /\ BuiltOwn(t)
        /\ seq[t] < seq[u]
        /\ Returned(u)

\* the first call of a run, on empty caches: V2 get_pool(token_addresses=(B, A))
V2FirstCallReversed(t) ==
    /\ TokensCall(t)
    /\ call[t].self[1] = "V2"
    /\ seq[t] = 1
    /\ call[t].token_addresses[1][1] > call[t].token_addresses[1][2]

\* C8: in the V2 manager with empty caches, get_pool(token_addresses=(B, A)),
\* A < B, makes one getPair query, with the arguments (A, B), and then one
\* constructor call; a later get_pool(token_addresses=(A, B)) returns, its
\* tokens resolved, the same helper with no getPair query and no constructor
\* call.
C8_ReversedPairScenario ==
    /\ \A t \in Callers :
        V2FirstCallReversed(t) =>
            /\ (pc[t] \in {"v2_build_t", "v2_lock_t", "v2_insert_t"}
                \/ (Finished(t) /\ ~ResolutionFailed(t)))
               => /\ Cardinality(IoCalls(t, {"getPair"})) = 1
                  /\ \A i \in IoCalls(t, {"getPair"}) :
                        io[t][i].args = <<call[t].token_addresses[1][2],
                                          call[t].token_addresses[1][1]>>
            /\ (pc[t] \in {"v2_lock_t", "v2_insert_t"}
                \/ (Finished(t) /\ ~ResolutionFailed(t)))
               => Cardinality(IoCalls(t, Constructors)) = 1
            /\ pc[t] \in {"v2_resolve", "v2_getPair"}
               => IoCalls(t, Constructors) = {}
    /\ \A t, u \in Callers :
        (/\ V2FirstCallReversed(t) /\ Returned(t)
         /\ TokensCall(u)
         /\ call[u].self = call[t].self
         /\ call[u].token_addresses[1] = <<call[t].token_addresses[1][2],
                                           call[t].token_addresses[1][1]>>
         /\ seq[t] < seq[u])
        => /\ IoCalls(u, Constructors \cup {"getPair"}) = {}
           /\ pc[u] \in {"v2_resolve", "done"}
           /\ (Finished(u) /\ ~ResolutionFailed(u))
                => (result[u] = "return" /\ pool_helper[u] = pool_helper[t])

\* the first call, by (B, A), built the helper and the next, by (A, B), returned it
C8_Witness ==
    \E t, u \in Callers :
        /\ V2FirstCallReversed(t) /\ Returned(t) /\ BuiltOwn(t)
        /\ TokensCall(u)
        /\ call[u].self = call[t].self
        /\ call[u].token_addresses[1] = <<call[t].token_addresses[1][2],
                                          call[t].token_addresses[1][1]>>
        /\ seq[u] = seq[t] + 1
        /\ Returned(u)
        /\ pool_helper[u] = pool_helper[t]

\* C9: in the V2 manager a call with both pool_address and token_addresses,
\* or with neither, ends at once in the invalid-selector error, having made no
\* collaborator call (so with both indices as they were).
C9_V2InvalidSelector ==
    \A t \in Callers :
        (/\ Entered(t)
         /\ call[t].self[1] = "V2"
         /\ (call[t].pool_address = None) = (call[t].token_addresses = None))
        => /\ Finished(t)
           /\ result[t] = "ValueError"
           /\ io[t] = <<>>

\* the two argument shapes the V3 manager is to accept
V3ValidShape(a) ==
    \/ a.pool_address # None /\ a.token_addresses = None /\ a.pool_fee = None
    \/ a.pool_address = None /\ a.token_addresses # None /\ a.pool_fee # None

\* C10: in the V3 manager a call of any shape other than pool_address alone
\* or token_addresses with pool_fee ends at once in the invalid-selector
\* error, returning nothing and having made no collaborator call; a call of
\* one of the two shapes (with two tokens) is not rejected.
C10_V3SelectorShapes ==
    \A t \in Callers :
        (Entered(t) /\ call[t].self[1] = "V3") =>
            IF V3ValidShape(call[t])
            THEN (AddressCall(t) \/ TokensCall(t)) => result[t] # "ValueError"
            ELSE /\ Finished(t)
                 /\ result[t] = "ValueError"
                 /\ io[t] = <<>>

\* the step is a step of caller t
Actor(t) == pc'[t] # pc[t] \/ seq'[t] # seq[t]

\* the indices of all registries
indices == <<pools_by_address, pools_by_tokens, pools_by_tokens_and_fee>>

\* a helper built by the call numbered n is stored in some index
StoredFrom(n) ==
    \E r \in Registries :
        \E h \in DictValues(pools_by_address[r]) \cup DictValues(Composite(r)) :
            h.id = n

\* the same manager and the same arguments
IdenticalCalls(t, u) == call[t] = call[u]

\* the call ended in the ManagerError of a pool construction
ConstructionFailed(t) ==
    /\ Finished(t)
    /\ result[t] = "ManagerError"
    /\ IoCalls(t, Constructors) # {}

\* C11: a call that ends in ManagerError made a collaborator call that failed
\* and stored nothing; every step of a call that holds no helper, the failing
\* step included, leaves all indices as they are, and only a call that holds
\* no helper fails; the next call, identical to one whose construction failed,
\* calls the constructor again (its tokens resolved) and, when that call
\* builds a helper, returns it.
C11_NoPartialInsert ==
    /\ [](\A t \in Callers :
            (Finished(t) /\ result[t] = "ManagerError") =>
                /\ io[t] # <<>>
                /\ ~StoredFrom(seq[t]))
    /\ [][\A t \in Callers :
            /\ (Actor(t) /\ pool_helper'[t] = NoHelper) => UNCHANGED indices
            /\ (Actor(t) /\ result'[t] = "ManagerError") =>
                    pool_helper[t] = NoHelper]_vars
    /\ [](\A t, u \in Callers :
            (/\ ConstructionFailed(t)
             /\ Entered(u) /\ seq[u] = seq[t] + 1
             /\ IdenticalCalls(t, u))
            => /\ (Finished(u) /\ ~ResolutionFailed(u)) =>
                    Cardinality(IoCalls(u, Constructors)) = 1
               /\ BuiltOwn(u) => result[u] # "ManagerError"
               /\ (Finished(u) /\ result[u] = "return") => BuiltOwn(u))

\* a construction failed and the next, identical call built and returned a helper
C11_Witness ==
    \E t, u \in Callers :
        /\ ConstructionFailed(t)
        /\ seq[u] = seq[t] + 1
        /\ IdenticalCalls(t, u)
        /\ Returned(u) /\ BuiltOwn(u)
        /\ ~StoredFrom(seq[t])
        /\ StoredFrom(seq[u])

\* a V2 lookup by two tokens for which the factory has no pair
NoPairOnChain(t) ==
    /\ TokensCall(t)
    /\ call[t].self[1] = "V2"
    /\ getPair(call[t].self[2], call[t].token_addresses[1][1],
               call[t].token_addresses[1][2]) = ZERO_ADDRESS

\* C12: a V2 lookup by a pair for which getPair answers the zero address never
\* reaches the constructor; once it has made the getPair query it has ended in
\* the ManagerError of line 137 with no helper, nothing of it is stored, and
\* the step of the query leaves all indices as they are.
C12_NoPoolNoConstruction ==
    /\ [](\A t \in Callers :
            NoPairOnChain(t) =>
                /\ pc[t] \in {"v2_resolve", "v2_getPair", "done"}
                /\ IoCalls(t, Constructors) = {}
                /\ IoCalls(t, {"getPair"}) # {} =>
                      /\ Finished(t)
                      /\ result[t] = "ManagerError"
                      /\ pool_helper[t] = NoHelper
                      /\ Cardinality(IoCalls(t, {"getPair"})) = 1
                      /\ ~StoredFrom(seq[t]))
    /\ [][\A t \in Callers :
            (Actor(t) /\ NoPairOnChain(t) /\ pc[t] = "v2_getPair") =>
                UNCHANGED indices]_vars

\* the getPair query of a lookup answered the zero address and the call failed
C12_Witness ==
    \E t \in Callers :
        /\ NoPairOnChain(t)
        /\ Finished(t)
        /\ IoCalls(t, {"getPair"}) # {}
        /\ result[t] = "ManagerError"

\* the dict objects bound to the manager objects of the factory in the class
BoundDicts(variant, factory_address) ==
    {m.dict : m \in {x \in managers :
                        x.dict[1] = variant /\ x.dict[2] = factory_address}}

\* C13: for each class and factory address at most one dict object is ever
\* created, and every manager object constructed for the factory is bound to
\* the dict that is the entry of _state.
C13_RegistrySingleton ==
    \A variant \in Variants, factory_address \in Factories :
        /\ Cardinality(DictsOf(variant, factory_address)) <= 1
        /\ BoundDicts(variant, factory_address) \subseteq
             {_state[variant][f] : f \in DOMAIN _state[variant] \cap {factory_address}}

InitPcs ==
    {"init_create", "init_bind", "init_contract", "init_has_address",
     "init_set_address", "init_has_tokens", "init_set_tokens",
     "init_has_tokens_and_fee", "init_set_tokens_and_fee", "init_has_lens",
     "init_set_lens"}

\* the step is a step of an __init__ call
InitActor(t) == Actor(t) /\ (pc[t] \in InitPcs \/ pc'[t] \in InitPcs)

\* the class and the factory address of the manager of a call
FactoryOf(t) == <<call[t].self[1], call[t].self[2]>>

\* the same arguments to get_pool
SameArgs(t, u) ==
    /\ call[t].pool_address = call[u].pool_address
    /\ call[t].token_addresses = call[u].token_addresses
    /\ call[t].pool_fee = call[u].pool_fee

\* C14: with managers constructed one after the other, every manager object
\* of a class and factory is bound to the one dict created for them, the entry
\* of _state; once a manager exists for a factory, no step replaces that entry
\* or changes the attributes set in it, and no step of an __init__ changes the
\* content of an index; so a lookup that returned a helper is answered, when
\* repeated later through any manager object of the class and factory, by the
\* same dict and (its tokens resolved) with the same helper, with no
\* constructor call.
C14_ManagersShareState ==
    /\ [](\A variant \in Variants, factory_address \in Factories :
            /\ Cardinality(DictsOf(variant, factory_address)) <= 1
            /\ \A d \in BoundDicts(variant, factory_address) :
                   StateGet(variant, factory_address) = Some(d))
    /\ [][/\ \A variant \in Variants, factory_address \in Factories :
              BoundDicts(variant, factory_address) # {} =>
                  /\ StateGet(variant, factory_address)' =
                       StateGet(variant, factory_address)
                  /\ \A d \in BoundDicts(variant, factory_address) :
                         attrs'[d] = attrs[d]
          /\ \A t \in Callers : InitActor(t) => UNCHANGED indices]_vars
    /\ [](\A t, u \in Callers :
            (/\ Entered(t) /\ Entered(u)
             /\ pc[u] \notin InitPcs
             /\ FactoryOf(t) = FactoryOf(u)
             /\ SameArgs(t, u)
             /\ Returned(t)
             /\ seq[t] < seq[u])
            => /\ call[u].self = call[t].self
               /\ IoCalls(u, Constructors) = {}
               /\ (Finished(u) /\ ~ResolutionFailed(u)) =>
                    (result[u] = "return" /\ pool_helper[u] = pool_helper[t]))

\* a helper built through one manager was returned through a manager object
\* constructed after it was built
C14_Witness ==
    \E t, u \in Callers : \E m \in managers :
        /\ Returned(t) /\ BuiltOwn(t)
        /\ m.dict = call[u].self
        /\ seq[t] <= m.created /\ m.created < seq[u]
        /\ FactoryOf(t) = FactoryOf(u)
        /\ SameArgs(t, u)
        /\ Returned(u)
        /\ pool_helper[u] = pool_helper[t]

\* C15: the indices of a registry change only in a step of a get_pool call
\* on a manager of that registry: a call on the registry of a class and
\* factory leaves the indices of the other class and of the other factories
\* as they are.
C15_RegistryIsolation ==
    [][\A r \in Registries :
          (pools_by_address'[r] # pools_by_address[r] \/ Composite(r)' # Composite(r))
          => \E t \in Callers : Actor(t) /\ call[t].self = r]_vars

\* the helpers stored in the indices of a registry
Stored(r) == DictValues(pools_by_address[r]) \cup DictValues(Composite(r))

\* calls on the two classes of one factory, or on two factories of one class,
\* each built a helper; each registry holds the helper of its own call only
C15_Witness ==
    \E t, u \in Callers :
        /\ Returned(t) /\ BuiltOwn(t)
        /\ Returned(u) /\ BuiltOwn(u)
        /\ call[t].self # call[u].self
        /\ call[t].self[1] = call[u].self[1] \/ call[t].self[2] = call[u].self[2]
        /\ Stored(call[t].self) = {pool_helper[t]}
        /\ Stored(call[u].self) = {pool_helper[u]}
        /\ \A r \in Registries \ {call[t].self, call[u].self} : Stored(r) = {}

\* where a caller is while a collaborator call of its get_pool is in progress
\* or about to be made: token resolution, getPair, address derivation, construction
CollaboratorPcs ==
    {"v2_build_a", "v2_resolve", "v2_getPair", "v2_build_t",
     "v3_build_a", "v3_resolve", "v3_derive", "v3_build_t"}

\* where a caller is between the two index writes
InsertPcs(variant) ==
    IF variant = "V2"
    THEN {"v2_insert_a", "v2_insert_t"}
    ELSE {"v3_insert_a", "v3_insert_t"}

\* C16: a caller whose token resolution, getPair query or pool construction
\* is in progress holds no lock; a caller holds the lock of its manager's
\* class exactly between the two index writes.
C16_LockOnlyAroundWrites ==
    \A t \in Callers : \A variant \in Variants :
        /\ pc[t] \in CollaboratorPcs => lock[variant] # t
        /\ lock[variant] = t <=> pc[t] \in InsertPcs(variant)

\* a caller is at its constructor call while another caller holds the lock
\* of the same class, between its two writes
C16_Witness ==
    \E t, u \in Callers :
        /\ t # u
        /\ call[t].self[1] = call[u].self[1]
        /\ pc[t] \in {"v2_build_a", "v2_build_t", "v3_build_a", "v3_build_t"}
        /\ pc[u] \in InsertPcs(call[u].self[1])
        /\ lock[call[u].self[1]] = u

\* C17: in the V2 manager (whose indices agree whenever no insert is in
\* progress) no cache read of a call sees a helper in one index while the
\* other index lacks it: a lookup by address that finds a helper in
\* pools_by_address finds it stored in pools_by_tokens as well, and a lookup
\* by pair that misses pools_by_tokens finds no helper of that pair in
\* pools_by_address.
C17_ReadersSeeBothOrNeither ==
    [][\A u \in Callers :
          /\ (/\ Actor(u) /\ pc[u] \in {"idle", "done"}
              /\ call'[u].self[1] = "V2"
              /\ AddressCall(u)'
              /\ Returned(u)')
             => pool_helper'[u] \in DictValues(pools_by_tokens[call'[u].self])
          /\ (pc[u] = "v2_resolve" /\ pc'[u] = "v2_getPair")
             => \A h \in DictValues(pools_by_address[call[u].self]) :
                    <<h.token0.address, h.token1.address>> # tokens_key'[u][1]]_vars

\* every key of the dict is a key of the later dict, with the same value
Kept(d, later) == \A k \in DOMAIN d : k \in DOMAIN later /\ later[k] = d[k]

\* C18: no step removes a key from an index of a registry or changes the
\* helper stored under a key that is present.
C18_EntriesWriteOnce ==
    [][\A r \in Registries :
          /\ Kept(pools_by_address[r], pools_by_address'[r])
          /\ Kept(Composite(r), Composite(r)')]_vars

\* a V3 lookup by pair and fee that missed both indices: its constructor call
\* is about to be made, or has built the helper being inserted
V3ConstructsDerived(t) ==
    /\ TokensCall(t)
    /\ call[t].self[1] = "V3"
    /\ pc[t] \in {"v3_build_t", "v3_lock_t", "v3_insert_t"}

\* C19: the address at which a V3 lookup by pair and fee constructs the pool
\* is the address of the pool that the factory of its own registry deploys for
\* the sorted pair and the fee; lookups of the same pair and fee in the
\* registries of two factories construct at two addresses.
C19_AddressFromOwnFactory ==
    /\ \A t \in Callers :
          V3ConstructsDerived(t) =>
              pool_address[t] = Some(Create2(call[t].self[2], tokens_key[t][1][1],
                                             tokens_key[t][1][2],
                                             call[t].pool_fee[1]))
    /\ \A t, u \in Callers :
          (/\ V3ConstructsDerived(t) /\ V3ConstructsDerived(u)
           /\ call[t].self[2] # call[u].self[2]
           /\ dict_key[t] = dict_key[u])
          => pool_address[t] # pool_address[u]

\* where a caller is while it waits for the lock
LockPcs == {"v2_lock_a", "v2_lock_t", "v3_lock_a", "v3_lock_t"}

\* C20: every call of get_pool that is in progress ends, returning or
\* raising; and whenever no call is in progress, no lock is held.
C20_CallsComplete ==
    /\ \A t \in Callers : ~Idle(t) ~> Idle(t)
    /\ [](NoCallInProgress => \A variant \in Variants : lock[variant] = 0)

\* a caller waits for the lock of its class while a caller on the manager of
\* another factory holds it
C20_Witness ==
    \E t, u \in Callers :
        /\ pc[t] \in LockPcs
        /\ pc[u] \in InsertPcs(call[u].self[1])
        /\ call[t].self[1] = call[u].self[1]
        /\ call[t].self[2] # call[u].self[2]
        /\ lock[call[t].self[1]] = u

====
